---------------------------- MODULE Spec2Model ----------------------------
(***************************************************************************)
(* A model of src/main.py: the per-prefecture PDF table -> CSV pipeline.   *)
(*                                                                         *)
(* Text is a sequence of characters; a character is a one-token string.   *)
(* Kanji are written by their reading, one token per character:            *)
(*   "to" 都  "do" 道  "fu" 府  "ken" 県      (the class [都道府県])        *)
(*   "shi" 市 "ku" 区 "cho" 町 "son" 村 "wan" 湾 "shima" 島                 *)
(*                                           (the class [市区町村湾島])    *)
(*   "tou" 東 "kyo" 京 "oki" 沖 "nawa" 縄 "minato" 港 "shiba" 芝 ...        *)
(* "\n", "\r", "\"", "~", "-" are themselves; "wave" is the full-width 〜. *)
(* A missing value (None from the table extractor, NaN in a frame) is the  *)
(* one-token text NaN.                                                     *)
(*                                                                         *)
(* A DataFrame is [columns, rows]: the column labels and, per row, the     *)
(* cells in column order.  The frames of main keep unique index labels     *)
(* (dropna keeps them, concat(ignore_index) renumbers them), so every      *)
(* index-aligned operation of main (loc, update) acts on the rows it       *)
(* selected; the model selects rows by position.  Column labels of the     *)
(* modelled documents are unique.                                          *)
(***************************************************************************)
EXTENDS Integers, Sequences, FiniteSets, TLC

VARIABLES
    i,              \* main: the loop counter of enumerate(PREFECTURES, 1)
    pc,             \* main: the position inside the loop body
    prefecture_name,\* main: the display name of prefecture i
    first_table,    \* main: what extract_table gave for the first page
    page_num,       \* main: the page the assembly loop is at
    df,             \* main: the frame being assembled and resolved
    coords,         \* main: the (latitude, longitude) pairs geocoded so far
    requested,      \* the requests made to the geocoding service: row, address, answer
    after_postal,   \* the frame as it left the postal-code stage (line 199)
    csv,            \* the frame handed to df.to_csv in this iteration
    error,          \* the exception raised in this iteration ("" for none)
    outcome,        \* per prefecture: how its iteration ended
    visited,        \* the prefecture numbers the loop body was entered for
    escaped,        \* an exception left main
    calls,          \* pure-function specifications: applications so far
    result          \* pure-function specifications: the value returned

vars == <<i, pc, prefecture_name, first_table, page_num, df, coords, requested,
          after_postal, csv, error, outcome, visited, escaped, calls, result>>

---------------------------------------------------------------------------
(* Bounds of the model *)

\* the number of prefectures in PREFECTURES
NPref == 2
\* the most pages a document has after its first page
MaxPages == 1

---------------------------------------------------------------------------
(* Text *)

NaN == <<"NaN">>
Empty == << >>

isna(x) == x = NaN

RECURSIVE str_replace(_, _, _)
\* str.replace(old, new) for a one-character old: every occurrence
str_replace(s, old, new) ==
    IF s = << >> THEN << >>
    ELSE (IF Head(s) = old THEN new ELSE <<Head(s)>>)
         \o str_replace(Tail(s), old, new)

\* sub in s: s holds sub as a contiguous run
str_contains(s, sub) ==
    \E k \in 0..(Len(s) - Len(sub)) :
        \A j \in 1..Len(sub) : s[k + j] = sub[j]

Min(S) == CHOOSE x \in S : \A y \in S : x <= y
Max(S) == CHOOSE x \in S : \A y \in S : x >= y

RECURSIVE SelectRows(_, _, _)
\* the rows of a sequence at the positions in keep, in order
SelectRows(rows, keep, k) ==
    IF k > Len(rows) THEN << >>
    ELSE (IF k \in keep THEN <<rows[k]>> ELSE << >>)
         \o SelectRows(rows, keep, k + 1)

---------------------------------------------------------------------------
(* Literals of the program *)

\* "基本情報"
KIHON_JOHO == <<"ki", "hon", "jou", "hou">>
\* "施設名"
SHISETSUMEI == <<"se", "tsu", "mei">>
\* "緊急避妊に係る診療が可能な産婦人科医療機関等一覧"
ICHIRAN_TITLE == <<"kin", "kyuu", "hi", "nin", "ichi", "ran">>
\* "公表の希望の有無"
KOHYO_NO_KIBO == <<"kou", "hyou", "no", "ki", "bou", "no", "u", "mu">>
\* "沖縄県"
OKINAWA == <<"oki", "nawa", "ken">>
\* "郵便番号"
YUBIN_BANGO == <<"yuu", "bin", "ban", "gou">>
\* "住所"
JUSHO == <<"juu", "sho">>
\* "都道府県"
TODOFUKEN == <<"to", "do", "fu", "ken">>
\* "市町村"
SHICHOSON == <<"shi", "cho", "son">>
\* "緯度"
IDO == <<"i", "deg">>
\* "経度"
KEIDO == <<"kei", "deg">>

---------------------------------------------------------------------------
(* Lookup tables *)

\* the rows of ./table/prefectures.csv: english_name, name
prefecture_rows ==
    << [english_name |-> "tokyo",   name |-> <<"tou", "kyo", "to">>],
       [english_name |-> "okinawa", name |-> OKINAWA],
       [english_name |-> "kyoto",   name |-> <<"kyo", "to", "fu">>],
       [english_name |-> "osaka",   name |-> <<"oo", "saka", "fu">>] >>

\* load_prefectures: the english names in file order
PREFECTURES == [k \in 1..NPref |-> prefecture_rows[k].english_name]

\* load_prefectures: english name -> display name
prefectures ==
    [e \in {prefecture_rows[k].english_name : k \in 1..NPref} |->
        prefecture_rows[CHOOSE k \in 1..NPref :
                            prefecture_rows[k].english_name = e].name]

\* prefectures.get(english_name, "")
get_prefecture_name(prefecture_english_name) ==
    IF prefecture_english_name \in DOMAIN prefectures
    THEN prefectures[prefecture_english_name]
    ELSE Empty

\* the postal index built from utf_ken_all.csv: code -> (region, municipality)
postal_to_location ==
    ( <<"1", "0">> :> << <<"tou", "kyo", "to">>, <<"chiyoda", "ku">> >> ) @@
    ( <<"9", "0">> :> << OKINAWA, <<"na", "ha", "shi">> >> )

\* postal2location
postal2location(postal_code) ==
    IF isna(postal_code) THEN <<Empty, Empty>>
    ELSE LET code == str_replace(postal_code, "-", << >>)
         IN  IF code \in DOMAIN postal_to_location
             THEN postal_to_location[code]
             ELSE <<Empty, Empty>>

---------------------------------------------------------------------------
(* split_japanese_address *)

\* [都道府県]
RegionSuffix == {"to", "do", "fu", "ken"}
\* [市区町村湾島]
LocalitySuffix == {"shi", "ku", "cho", "son", "wan", "shima"}
\* '.' matches every character but the line feed
Dot(c) == c # "\n"

\* (?P<region>...??[都道府県]) matched at the start over n characters: two
\* characters, lazily a third, then a suffix character
RegionAt(a, n) ==
    /\ n \in {3, 4}
    /\ Len(a) >= n
    /\ \A k \in 1..(n - 1) : Dot(a[k])
    /\ a[n] \in RegionSuffix

\* (?P<locality>.+?[市区町村湾島]) matched from position s: the ends e it can
\* take (at least one character, then a suffix character)
LocalityEnds(a, s) ==
    {e \in (s + 1)..Len(a) :
        /\ a[e] \in LocalitySuffix
        /\ \A k \in s..(e - 1) : Dot(a[k])}

\* pattern.match(address): the length of the region the backtracking settles
\* on (3, then 4, then 0 for the skipped optional group), or -1 for no match
RegionLength(a) ==
    IF RegionAt(a, 3) /\ LocalityEnds(a, 4) # {} THEN 3
    ELSE IF RegionAt(a, 4) /\ LocalityEnds(a, 5) # {} THEN 4
    ELSE IF LocalityEnds(a, 1) # {} THEN 0
    ELSE -1

\* a missing address is the None of the table extractor: `not address` holds
split_japanese_address(address) ==
    IF isna(address) \/ address = Empty THEN <<Empty, Empty>>
    ELSE LET n == RegionLength(address)
         IN  IF n = -1 THEN <<Empty, Empty>>
             ELSE LET e == Min(LocalityEnds(address, n + 1))
                  IN  <<SubSeq(address, 1, n), SubSeq(address, n + 1, e)>>

---------------------------------------------------------------------------
(* address_to_coordinates *)

\* round(x, 6) of a value given in units of 1e-7 degree, in units of 1e-6
round6(v) ==
    LET q == v \div 10
        r == v % 10
    IN  IF r > 5 \/ (r = 5 /\ q % 2 = 1) THEN q + 1 ELSE q

\* a coordinate as a cell: the number's text (in units of 1e-6 degree)
Num(n) == <<ToString(n)>>

\* What requests.get can bring back for one address:
\*   status 200 with a well-formed body holding candidate/longitude and
\*   candidate/latitude; another status; status 200 with a body that is not
\*   XML; status 200 with XML holding no candidate; no response at all.
Responses ==
    { [kind |-> "ok", status |-> 200, longitude |-> 1397454316, latitude |-> 356585812],
      [kind |-> "status", status |-> 500, longitude |-> 0, latitude |-> 0],
      [kind |-> "not_xml", status |-> 200, longitude |-> 0, latitude |-> 0],
      [kind |-> "no_candidate", status |-> 200, longitude |-> 0, latitude |-> 0],
      [kind |-> "no_response", status |-> 0, longitude |-> 0, latitude |-> 0] }

\* address_to_coordinates(address) given the response of requests.get:
\* [raised, latitude, longitude]; raised names the exception that leaves it
address_to_coordinates(address, response) ==
    IF address = Empty
    THEN [raised |-> "", latitude |-> Num(0), longitude |-> Num(0)]
    ELSE IF response.kind = "no_response"
    THEN [raised |-> "ConnectionError", latitude |-> Num(0), longitude |-> Num(0)]
    ELSE IF response.status # 200
    THEN [raised |-> "", latitude |-> Num(0), longitude |-> Num(0)]
    ELSE IF response.kind = "not_xml"
    THEN [raised |-> "ParseError", latitude |-> Num(0), longitude |-> Num(0)]
    ELSE IF response.kind = "no_candidate"
    THEN [raised |-> "TypeError", latitude |-> Num(0), longitude |-> Num(0)]
    ELSE [raised |-> "",
          latitude |-> Num(round6(response.latitude)),
          longitude |-> Num(round6(response.longitude))]

---------------------------------------------------------------------------
(* Frames *)

NoFrame == [columns |-> << >>, rows |-> << >>]

\* pd.DataFrame(data, columns=headers): the rows are padded with None to the
\* widest one, and that width must be the number of columns (ValueError)
DataFrameRaises(data, headers) ==
    /\ data # << >>
    /\ Max({Len(data[k]) : k \in 1..Len(data)}) # Len(headers)

DataFrame(data, headers) ==
    [columns |-> headers,
     rows |-> [k \in 1..Len(data) |->
                [c \in 1..Len(headers) |->
                    IF c <= Len(data[k]) THEN data[k][c] ELSE NaN]]]

\* label in df.columns
HasColumn(frame, label) ==
    \E c \in 1..Len(frame.columns) : frame.columns[c] = label

ColumnIndex(frame, label) ==
    Min({c \in 1..Len(frame.columns) : frame.columns[c] = label})

\* df[label]: the cells of a column, row by row
Column(frame, label) ==
    [k \in 1..Len(frame.rows) |-> frame.rows[k][ColumnIndex(frame, label)]]

\* df[label] = values: replaces the column, or adds it at the right
SetColumn(frame, label, values) ==
    IF HasColumn(frame, label)
    THEN [frame EXCEPT !.rows =
            [k \in 1..Len(frame.rows) |->
                [frame.rows[k] EXCEPT ![ColumnIndex(frame, label)] = values[k]]]]
    ELSE [columns |-> Append(frame.columns, label),
          rows |-> [k \in 1..Len(frame.rows) |-> Append(frame.rows[k], values[k])]]

\* df.replace(old, new, regex=True): in every cell that holds text
replace(frame, old, new) ==
    [frame EXCEPT !.rows =
        [k \in 1..Len(frame.rows) |->
            [c \in 1..Len(frame.rows[k]) |->
                IF isna(frame.rows[k][c]) THEN frame.rows[k][c]
                ELSE str_replace(frame.rows[k][c], old, new)]]]

\* the number of cells of a row that are not missing
NonNA(row) == Cardinality({c \in 1..Len(row) : ~isna(row[c])})

\* df.dropna(axis=0, thresh=2): keeps the rows with at least 2 values
dropna(frame) ==
    [frame EXCEPT !.rows =
        SelectRows(frame.rows,
                   {k \in 1..Len(frame.rows) : NonNA(frame.rows[k]) >= 2}, 1)]

\* df.drop(df.index[:n])
drop_first(frame, n) ==
    [frame EXCEPT !.rows = SubSeq(frame.rows, n + 1, Len(frame.rows))]

\* pd.concat([df, page_df], ignore_index=True), both under the same columns
concat(frame, page_frame) ==
    [frame EXCEPT !.rows = frame.rows \o page_frame.rows]

---------------------------------------------------------------------------
(* Row cleaning and page assembly *)

\* Lines 129-130: the chain of replace calls for "\n", "\r", "\r\n", "\n\r"
\* builds a new frame; it is neither assigned nor done in place
replace_newlines(frame) ==
    replace(replace(frame, "\n", << >>), "\r", << >>)

\* clear_change_line with the double quotes escaped ("" for ") instead of
\* removed
clear_change_line_escape(frame) ==
    LET dropped  == replace_newlines(frame)
        unquoted == replace(frame, "\"", <<"\"", "\"">>)
        tilde    == replace(unquoted, "~", <<"-">>)
        wave     == replace(tilde, "wave", <<"-">>)
    IN  dropna(wave)

\* clear_change_line: the frame df is after the call (it works in place).
\* The frame replace_newlines builds is dropped.
clear_change_line(frame) ==
    LET dropped  == replace_newlines(frame)
        unquoted == replace(frame, "\"", << >>)
        tilde    == replace(unquoted, "~", <<"-">>)
        wave     == replace(tilde, "wave", <<"-">>)
    IN  dropna(wave)

\* df.iloc[0, c] raises IndexError on a frame with no row or no such column
IlocRaises(frame, c) == frame.rows = << >> \/ Len(frame.columns) < c

\* delete_title: [raised, frame]
delete_title(frame) ==
    IF IlocRaises(frame, 1)
    THEN [raised |-> "IndexError", frame |-> frame]
    ELSE IF frame.rows[1][1] = ICHIRAN_TITLE
    THEN [raised |-> "", frame |-> drop_first(frame, 1)]
    ELSE [raised |-> "", frame |-> clear_change_line(frame)]

\* delete_headers
delete_headers(frame, line_number) ==
    IF IlocRaises(frame, 1)
    THEN [raised |-> "IndexError", frame |-> frame]
    ELSE IF \E target \in {KIHON_JOHO, SHISETSUMEI} :
                \/ frame.rows[1][1] = target
                \/ (Len(frame.columns) > 1 /\ frame.rows[1][2] = target)
    THEN [raised |-> "", frame |-> drop_first(frame, line_number)]
    ELSE [raised |-> "", frame |-> frame]

\* fix_format_page_df
fix_format_page_df(frame, line_number) ==
    LET cleaned  == clear_change_line(frame)
        untitled == delete_title(cleaned)
    IN  IF untitled.raised # "" THEN untitled
        ELSE delete_headers(untitled.frame, line_number)

\* a header cell with its line breaks removed; a missing or empty one is ''
HeaderLabel(header) ==
    IF isna(header) \/ header = Empty THEN Empty
    ELSE str_replace(str_replace(header, "\n", << >>), "\r", << >>)

\* get_first_page without the step over the "基本情報" row
get_first_page_row1(table, name) ==
    IF Len(table) < 2 \/ table[2] = << >>
    THEN [raised |-> "IndexError", row |-> 1, headers |-> << >>, data |-> << >>]
    ELSE LET labels == [c \in 1..Len(table[2]) |-> HeaderLabel(table[2][c])]
         IN  [raised |-> "", row |-> 1,
              headers |-> IF name = OKINAWA
                          THEN [labels EXCEPT ![1] = KOHYO_NO_KIBO]
                          ELSE labels,
              data |-> SubSeq(table, 3, Len(table))]

\* get_first_page; the grid's row r (from 0) is first_table[r + 1]
\* [raised, row, headers, data]
get_first_page(table, name) ==
    IF Len(table) < 2 \/ table[2] = << >>
    THEN [raised |-> "IndexError", row |-> 1, headers |-> << >>, data |-> << >>]
    ELSE LET row == IF table[2][1] = KIHON_JOHO THEN 2 ELSE 1
         IN  IF Len(table) < row + 1
             THEN [raised |-> "IndexError", row |-> row, headers |-> << >>,
                   data |-> << >>]
             ELSE LET labels == [c \in 1..Len(table[row + 1]) |->
                                    HeaderLabel(table[row + 1][c])]
                  IN  IF name = OKINAWA /\ labels = << >>
                      THEN [raised |-> "IndexError", row |-> row,
                            headers |-> << >>, data |-> << >>]
                      ELSE [raised |-> "", row |-> row,
                            headers |-> IF name = OKINAWA
                                        THEN [labels EXCEPT ![1] = KOHYO_NO_KIBO]
                                        ELSE labels,
                            data |-> SubSeq(table, row + 2, Len(table))]

---------------------------------------------------------------------------
(* The documents main is run on *)

\* what extract_table gave: not read yet, None, or a grid
Unread == [read |-> FALSE, none |-> TRUE, grid |-> << >>]
NoTable == [read |-> TRUE, none |-> TRUE, grid |-> << >>]
Table(g) == [read |-> TRUE, none |-> FALSE, grid |-> g]

\* "電話"
DENWA == <<"den", "wa">>

\* postal codes: one of the index written with a hyphen, one not in it
CodeHit == <<"1", "-", "0">>
CodeMiss == <<"7", "-", "7">>

\* address texts: 港区芝, 東京都港区, 芝, 港(line feed)区, and the empty text
AddrMinatoShiba == <<"minato", "ku", "shiba">>
AddrTokyoMinato == <<"tou", "kyo", "to", "minato", "ku">>
AddrShiba == <<"shiba">>
AddrBroken == <<"minato", "\n", "ku">>

FacilityName == <<"a">>
TitleRow == <<ICHIRAN_TITLE>>

\* the data rows of the first pages, per header
RowsOf(headers) ==
    IF headers = <<SHISETSUMEI, YUBIN_BANGO, JUSHO>> THEN
        { << <<FacilityName, p, a>> >> :
            p \in {CodeHit, CodeMiss, NaN},
            a \in {AddrMinatoShiba, AddrShiba} }
        \cup { << <<FacilityName, CodeHit, NaN>> >>,
               << <<FacilityName, CodeMiss, AddrTokyoMinato>> >>,
               << <<FacilityName, CodeMiss, AddrBroken>> >>,
               << <<FacilityName, NaN, Empty>> >>,
               << <<FacilityName, CodeHit, AddrMinatoShiba>>,
                  <<FacilityName, CodeMiss, AddrShiba>> >>,
               << <<FacilityName, CodeMiss, AddrMinatoShiba>>,
                  <<FacilityName, CodeHit, AddrTokyoMinato>> >> }
    ELSE IF headers = <<SHISETSUMEI, JUSHO>> THEN
        { << <<FacilityName, a>> >> :
            a \in {AddrMinatoShiba, AddrTokyoMinato, AddrShiba, AddrBroken, NaN} }
        \cup { << <<FacilityName, AddrMinatoShiba>>,
                  <<FacilityName, AddrTokyoMinato>> >> }
    ELSE IF headers = <<SHISETSUMEI, YUBIN_BANGO>> THEN
        { << <<FacilityName, p>> >> : p \in {CodeHit, CodeMiss, NaN, Empty} }
        \cup { << <<FacilityName, CodeHit>>, <<FacilityName, CodeMiss>> >> }
    ELSE IF headers = <<SHISETSUMEI, DENWA>> THEN
        { << <<FacilityName, <<"0">>>> >>, << >> }
    ELSE
        { << <<a, r, m>> >> :
            a \in {AddrMinatoShiba, AddrShiba},
            r \in {<<"tou", "kyo">>, Empty},
            m \in {<<"minato", "ku">>, Empty} }

Headers ==
    { <<SHISETSUMEI, YUBIN_BANGO, JUSHO>>, <<SHISETSUMEI, JUSHO>>,
      <<SHISETSUMEI, YUBIN_BANGO>>, <<SHISETSUMEI, DENWA>>,
      <<JUSHO, TODOFUKEN, SHICHOSON>> }

\* what extract_table can give for a first page
FirstTables ==
    UNION { { Table(<<TitleRow, h>> \o rows) : rows \in RowsOf(h) } : h \in Headers }
    \cup { NoTable,
           Table(<< >>),
           Table(<<TitleRow>>),
           \* a section label above the header
           Table(<<TitleRow, <<KIHON_JOHO, NaN, NaN>>,
                   <<SHISETSUMEI, YUBIN_BANGO, JUSHO>>,
                   <<FacilityName, CodeHit, AddrMinatoShiba>>>>),
           \* a section label and nothing below it
           Table(<<TitleRow, <<KIHON_JOHO, NaN>>>>),
           \* a data row wider than the header
           Table(<<TitleRow, <<SHISETSUMEI, JUSHO>>,
                   <<FacilityName, AddrMinatoShiba, FacilityName>>>>) }

\* the cell a later page holds under a label
PageCell(label) ==
    IF label = YUBIN_BANGO THEN CodeHit
    ELSE IF label = JUSHO THEN AddrTokyoMinato
    ELSE IF label \in {TODOFUKEN, SHICHOSON} THEN Empty
    ELSE <<"b">>

PageRow(headers) == [c \in 1..Len(headers) |-> PageCell(headers[c])]

\* what extract_table can give for a later page under these headers: None,
\* a data row, the header repeated above a data row, the document title
\* above a data row, a row holding a single value
PageTables(headers) ==
    { NoTable,
      Table(<<PageRow(headers)>>),
      Table(<<headers, PageRow(headers)>>),
      Table(<<[c \in 1..Len(headers) |-> IF c = 1 THEN ICHIRAN_TITLE ELSE NaN],
              PageRow(headers)>>),
      Table(<<[c \in 1..Len(headers) |-> IF c = 1 THEN <<"b">> ELSE NaN]>>) }

---------------------------------------------------------------------------
(* main *)

\* the locals of one iteration before it starts
Fresh ==
    /\ first_table' = Unread
    /\ page_num' = 0
    /\ df' = NoFrame
    /\ coords' = << >>
    /\ requested' = << >>
    /\ after_postal' = NoFrame
    /\ csv' = NoFrame
    /\ error' = ""

Init ==
    /\ i = 1
    /\ pc = "loop"
    /\ prefecture_name = Empty
    /\ first_table = Unread
    /\ page_num = 0
    /\ df = NoFrame
    /\ coords = << >>
    /\ requested = << >>
    /\ after_postal = NoFrame
    /\ csv = NoFrame
    /\ error = ""
    /\ outcome = [k \in 1..NPref |-> "none"]
    /\ visited = << >>
    /\ escaped = FALSE
    /\ calls = 0
    /\ result = NoFrame

\* an exception raised inside the try block: control goes to the handler
Raise(e) ==
    /\ error' = e
    /\ pc' = "except"

\* lines 166-168: the next prefecture of the list, or the end of the list
Enter ==
    /\ pc = "loop"
    /\ i <= NPref
    /\ prefecture_name' = get_prefecture_name(PREFECTURES[i])
    /\ visited' = Append(visited, i)
    /\ pc' = "listdir"
    /\ UNCHANGED <<i, first_table, page_num, df, coords, requested, after_postal,
                   csv, error, outcome, escaped, calls, result>>

Return ==
    /\ pc = "loop"
    /\ i > NPref
    /\ pc' = "done"
    /\ UNCHANGED <<i, prefecture_name, first_table, page_num, df, coords,
                   requested, after_postal, csv, error, outcome, visited, escaped,
                   calls, result>>

\* lines 171-174: the directory holds a file, holds none, or is missing
ListFiles ==
    /\ pc = "listdir"
    /\ \E listing \in {"file", "empty", "missing"} :
        IF listing = "file" THEN pc' = "open" /\ error' = error
        ELSE IF listing = "empty" THEN Raise("IndexError")
        ELSE Raise("FileNotFoundError")
    /\ UNCHANGED <<i, prefecture_name, first_table, page_num, df, coords,
                   requested, after_postal, csv, outcome, visited, escaped, calls,
                   result>>

\* lines 175-177: the document opens and its first page is read, or not
OpenFirst ==
    /\ pc = "open"
    /\ \/ /\ \E t \in FirstTables : first_table' = t
          /\ pc' = "check"
          /\ error' = error
       \/ /\ Raise("PDFSyntaxError")
          /\ first_table' = first_table
    /\ UNCHANGED <<i, prefecture_name, page_num, df, coords, requested,
                   after_postal, csv, outcome, visited, escaped, calls, result>>

\* the test of line 178 with len(first_table) < 1
no_table_lt1(t) == t.none \/ Len(t.grid) < 1

\* line 178: first_table is None or len(first_table) < 2
no_table(t) == t.none \/ Len(t.grid) < 2

\* lines 178-180: "No table found.", continue
NoTableFound ==
    /\ pc = "check"
    /\ no_table(first_table)
    /\ outcome' = [outcome EXCEPT ![i] = "skipped"]
    /\ pc' = "end"
    /\ UNCHANGED <<i, prefecture_name, first_table, page_num, df, coords,
                   requested, after_postal, csv, error, visited, escaped, calls,
                   result>>

\* lines 181-183
FirstPage ==
    /\ pc = "check"
    /\ ~no_table(first_table)
    /\ LET page == get_first_page(first_table.grid, prefecture_name)
       IN  IF page.raised # ""
           THEN Raise(page.raised) /\ UNCHANGED <<df, page_num>>
           ELSE IF DataFrameRaises(page.data, page.headers)
           THEN Raise("ValueError") /\ UNCHANGED <<df, page_num>>
           ELSE /\ df' = clear_change_line(DataFrame(page.data, page.headers))
                /\ page_num' = 1
                /\ pc' = "pages"
                /\ error' = error
    /\ UNCHANGED <<i, prefecture_name, first_table, coords, requested,
                   after_postal, csv, outcome, visited, escaped, calls, result>>

\* lines 185-194, one page: headers are the columns of the first page
NextPage ==
    /\ pc = "pages"
    /\ page_num <= MaxPages
    /\ \E t \in PageTables(df.columns) :
        IF t.none \/ t.grid = << >>
        THEN /\ page_num' = page_num + 1
             /\ UNCHANGED <<df, pc, error>>
        ELSE IF DataFrameRaises(t.grid, df.columns)
        THEN Raise("ValueError") /\ UNCHANGED <<df, page_num>>
        ELSE LET fixed == fix_format_page_df(DataFrame(t.grid, df.columns), 1)
             IN  IF fixed.raised # ""
                 THEN Raise(fixed.raised) /\ UNCHANGED <<df, page_num>>
                 ELSE /\ df' = concat(df, clear_change_line(fixed.frame))
                      /\ page_num' = page_num + 1
                      /\ UNCHANGED <<pc, error>>
    /\ UNCHANGED <<i, prefecture_name, first_table, coords, requested,
                   after_postal, csv, outcome, visited, escaped, calls, result>>

\* line 185: the document has no further page
EndPages ==
    /\ pc = "pages"
    /\ pc' = "postal"
    /\ UNCHANGED <<i, prefecture_name, first_table, page_num, df, coords,
                   requested, after_postal, csv, error, outcome, visited,
                   escaped, calls, result>>

\* lines 198-199: the region and municipality columns from the postal codes
postal_columns(frame) ==
    LET found == [k \in 1..Len(frame.rows) |->
                    postal2location(Column(frame, YUBIN_BANGO)[k])]
    IN  SetColumn(SetColumn(frame, TODOFUKEN,
                            [k \in 1..Len(frame.rows) |-> found[k][1]]),
                  SHICHOSON, [k \in 1..Len(frame.rows) |-> found[k][2]])

\* lines 196-199; zip(*...) of no row at all cannot be unpacked
Postal ==
    /\ pc = "postal"
    /\ IF ~HasColumn(df, YUBIN_BANGO)
       THEN pc' = "prefix" /\ after_postal' = df /\ UNCHANGED <<df, error>>
       ELSE IF df.rows = << >>
       THEN Raise("ValueError") /\ UNCHANGED <<df, after_postal>>
       ELSE /\ df' = postal_columns(df)
            /\ after_postal' = postal_columns(df)
            /\ pc' = "prefix"
            /\ error' = error
    /\ UNCHANGED <<i, prefecture_name, first_table, page_num, coords,
                   requested, csv, outcome, visited, escaped, calls, result>>

\* lines 203-204: the rows whose address is a text that does not hold name
\* (a missing address compares neither True nor False)
null_prefecture_address(frame, name) ==
    {k \in 1..Len(frame.rows) :
        LET a == Column(frame, JUSHO)[k]
        IN  ~isna(a) /\ ~str_contains(a, name)}

\* lines 203-207 without the test of line 203: the name is put in front of
\* every address text
prefix_addresses_all(frame, name) ==
    SetColumn(frame, JUSHO,
              [k \in 1..Len(frame.rows) |->
                  IF isna(Column(frame, JUSHO)[k]) THEN Column(frame, JUSHO)[k]
                  ELSE name \o Column(frame, JUSHO)[k]])

\* lines 203-207: the name is put in front of those addresses
prefix_addresses(frame, name) ==
    LET sel == null_prefecture_address(frame, name)
    IN  SetColumn(frame, JUSHO,
                  [k \in 1..Len(frame.rows) |->
                      IF k \in sel THEN name \o Column(frame, JUSHO)[k]
                      ELSE Column(frame, JUSHO)[k]])

\* lines 201-207; without an address column the resolution ends here
Prefix ==
    /\ pc = "prefix"
    /\ IF ~HasColumn(df, JUSHO)
       THEN pc' = "write" /\ df' = df
       ELSE /\ df' = prefix_addresses(df, prefecture_name)
            /\ pc' = "geocode"
    /\ UNCHANGED <<i, prefecture_name, first_table, page_num, coords,
                   requested, after_postal, csv, error, outcome, visited, escaped,
                   calls, result>>

\* lines 210-211, one element of apply: a missing address gives ("0", "0")
\* without a request, any other goes to address_to_coordinates
GeocodeRecord ==
    /\ pc = "geocode"
    /\ Len(coords) < Len(df.rows)
    /\ LET x == Column(df, JUSHO)[Len(coords) + 1]
       IN  IF isna(x)
           THEN /\ coords' = Append(coords, <<Num(0), Num(0)>>)
                /\ UNCHANGED <<requested, pc, error>>
           ELSE IF x = Empty
           THEN /\ coords' = Append(coords, <<Num(0), Num(0)>>)
                /\ UNCHANGED <<requested, pc, error>>
           ELSE \E response \in Responses :
                LET got == address_to_coordinates(x, response)
                IN  /\ requested' = Append(requested,
                                            [row |-> Len(coords) + 1,
                                             address |-> x,
                                             kind |-> response.kind])
                    /\ IF got.raised # ""
                       THEN Raise(got.raised) /\ coords' = coords
                       ELSE /\ coords' = Append(coords,
                                                <<got.latitude, got.longitude>>)
                            /\ UNCHANGED <<pc, error>>
    /\ UNCHANGED <<i, prefecture_name, first_table, page_num, df, after_postal,
                   csv, outcome, visited, escaped, calls, result>>

\* lines 210-211: zip(*...) and the assignment of the two columns
GeocodeAssign ==
    /\ pc = "geocode"
    /\ Len(coords) = Len(df.rows)
    /\ IF df.rows = << >>
       THEN Raise("ValueError") /\ df' = df
       ELSE /\ df' = SetColumn(SetColumn(df, IDO,
                                  [k \in 1..Len(df.rows) |-> coords[k][1]]),
                               KEIDO, [k \in 1..Len(df.rows) |-> coords[k][2]])
            /\ pc' = "parse"
            /\ error' = error
    /\ UNCHANGED <<i, prefecture_name, first_table, page_num, coords,
                   requested, after_postal, csv, outcome, visited, escaped, calls,
                   result>>

\* line 214: the rows whose region or municipality is the empty text
null_prefecture(frame) ==
    {k \in 1..Len(frame.rows) :
        \/ Column(frame, TODOFUKEN)[k] = Empty
        \/ Column(frame, SHICHOSON)[k] = Empty}

\* lines 215-220: df.update(region_locality) writes, for each selected row,
\* every value of region_locality that is not missing: both columns
update_region_locality(frame) ==
    LET sel == null_prefecture(frame)
        region_locality == [k \in 1..Len(frame.rows) |->
                              split_japanese_address(Column(frame, JUSHO)[k])]
    IN  SetColumn(SetColumn(frame, TODOFUKEN,
                    [k \in 1..Len(frame.rows) |->
                        IF k \in sel THEN region_locality[k][1]
                        ELSE Column(frame, TODOFUKEN)[k]]),
                  SHICHOSON,
                    [k \in 1..Len(frame.rows) |->
                        IF k \in sel THEN region_locality[k][2]
                        ELSE Column(frame, SHICHOSON)[k]])

\* lines 213-220; df["都道府県"] of a frame without that column is a KeyError
Parse ==
    /\ pc = "parse"
    /\ IF ~HasColumn(df, TODOFUKEN) \/ ~HasColumn(df, SHICHOSON)
       THEN Raise("KeyError") /\ df' = df
       ELSE /\ df' = update_region_locality(df)
            /\ pc' = "write"
            /\ error' = error
    /\ UNCHANGED <<i, prefecture_name, first_table, page_num, coords,
                   requested, after_postal, csv, outcome, visited, escaped, calls,
                   result>>

\* lines 222-225: the frame goes to to_csv, which writes it or fails
Write ==
    /\ pc = "write"
    /\ \/ /\ csv' = df
          /\ outcome' = [outcome EXCEPT ![i] = "written"]
          /\ pc' = "end"
          /\ error' = error
       \/ /\ Raise("OSError")
          /\ UNCHANGED <<csv, outcome>>
    /\ UNCHANGED <<i, prefecture_name, first_table, page_num, df, coords,
                   requested, after_postal, visited, escaped, calls, result>>

\* a handler that lets the exception go on: main ends with it
Except_reraise ==
    /\ pc = "except"
    /\ escaped' = TRUE
    /\ pc' = "done"
    /\ UNCHANGED <<i, prefecture_name, first_table, page_num, df, coords,
                   requested, after_postal, csv, error, outcome, visited,
                   calls, result>>

\* lines 227-228: the handler prints the exception; the iteration is over
Except ==
    /\ pc = "except"
    /\ outcome' = [outcome EXCEPT ![i] = "error"]
    /\ pc' = "end"
    /\ UNCHANGED <<i, prefecture_name, first_table, page_num, df, coords,
                   requested, after_postal, csv, error, visited, escaped, calls,
                   result>>

\* line 166: the loop takes the next prefecture
Advance ==
    /\ pc = "end"
    /\ i' = i + 1
    /\ pc' = "loop"
    /\ Fresh
    /\ UNCHANGED <<prefecture_name, outcome, visited, escaped, calls, result>>

Next ==
    \/ Enter
    \/ Return
    \/ ListFiles
    \/ OpenFirst
    \/ NoTableFound
    \/ FirstPage
    \/ NextPage
    \/ EndPages
    \/ Postal
    \/ Prefix
    \/ GeocodeRecord
    \/ GeocodeAssign
    \/ Parse
    \/ Write
    \/ Except
    \/ Advance

Spec == Init /\ [][Next]_vars

---------------------------------------------------------------------------
(* get_first_page on its own: every grid of a bounded family *)

\* the most rows a first-page grid has
MaxGridRows == 4

LabelOne == <<"h", "1">>
LabelTwo == <<"h", "\n", "2", "\r">>
ValueOne == <<"v", "1">>
ValueTwo == <<"v", "2">>

GridRows ==
    { <<ICHIRAN_TITLE>>, <<KIHON_JOHO>>, <<LabelOne, LabelTwo>>,
      <<NaN, LabelTwo>>, <<ValueOne, ValueTwo>>, << >> }

RECURSIVE GridsOfLength(_)
GridsOfLength(n) ==
    IF n = 0 THEN { << >> }
    ELSE { Append(g, r) : g \in GridsOfLength(n - 1), r \in GridRows }

\* main calls get_first_page on grids of 2 rows or more
Grids == UNION { GridsOfLength(n) : n \in 2..MaxGridRows }

NoResult == [raised |-> "", row |-> 0, headers |-> << >>, data |-> << >>]

InitFirstPage ==
    /\ i = 1
    /\ pc = "get_first_page"
    /\ prefecture_name \in {prefecture_rows[1].name, OKINAWA}
    /\ first_table \in {Table(g) : g \in Grids}
    /\ page_num = 0
    /\ df = NoFrame
    /\ coords = << >>
    /\ requested = << >>
    /\ after_postal = NoFrame
    /\ csv = NoFrame
    /\ error = ""
    /\ outcome = [k \in 1..NPref |-> "none"]
    /\ visited = << >>
    /\ escaped = FALSE
    /\ calls = 0
    /\ result = NoResult

\* lines 181-182: headers, data = get_first_page(...); df = DataFrame(...)
CallFirstPage ==
    /\ pc = "get_first_page"
    /\ calls = 0
    /\ LET page == get_first_page(first_table.grid, prefecture_name)
       IN  /\ result' = page
           /\ IF page.raised # ""
              THEN error' = page.raised /\ df' = df
              ELSE IF DataFrameRaises(page.data, page.headers)
              THEN error' = "ValueError" /\ df' = df
              ELSE error' = error /\ df' = DataFrame(page.data, page.headers)
    /\ calls' = 1
    /\ UNCHANGED <<i, pc, prefecture_name, first_table, page_num, coords,
                   requested, after_postal, csv, outcome, visited, escaped>>

SpecFirstPage == InitFirstPage /\ [][CallFirstPage]_vars

---------------------------------------------------------------------------
(* clear_change_line on its own: every frame of a bounded family *)

\* the most rows a frame to clean has
MaxCleanRows == 2

DirtyCells ==
    { <<"a">>, NaN, <<"a", "\n", "\r">>, <<"\"", "~">>, <<"wave">> }

DirtyRows == { <<x, y>> : x, y \in DirtyCells }

RECURSIVE DirtyTablesOfLength(_)
DirtyTablesOfLength(n) ==
    IF n = 0 THEN { << >> }
    ELSE { Append(t, r) : t \in DirtyTablesOfLength(n - 1), r \in DirtyRows }

DirtyTables == UNION { DirtyTablesOfLength(n) : n \in 0..MaxCleanRows }

InitClean ==
    /\ i = 1
    /\ pc = "clear_change_line"
    /\ prefecture_name = Empty
    /\ first_table \in {Table(t) : t \in DirtyTables}
    /\ page_num = 0
    /\ df = DataFrame(first_table.grid, <<LabelOne, ValueOne>>)
    /\ coords = << >>
    /\ requested = << >>
    /\ after_postal = NoFrame
    /\ csv = NoFrame
    /\ error = ""
    /\ outcome = [k \in 1..NPref |-> "none"]
    /\ visited = << >>
    /\ escaped = FALSE
    /\ calls = 0
    /\ result = NoFrame

\* clear_change_line(df), once and once again; result keeps the frame the
\* first call left
CallClean ==
    /\ pc = "clear_change_line"
    /\ calls < 2
    /\ df' = clear_change_line(df)
    /\ result' = IF calls = 0 THEN clear_change_line(df) ELSE result
    /\ calls' = calls + 1
    /\ UNCHANGED <<i, pc, prefecture_name, first_table, page_num, coords,
                   requested, after_postal, csv, error, outcome, visited,
                   escaped>>

SpecClean == InitClean /\ [][CallClean]_vars

---------------------------------------------------------------------------
(* Properties *)

CellOf(frame, k, label) == Column(frame, label)[k]

IsLineBreak(c) == c \in {"\n", "\r"}
NotLineBreak(c) == ~IsLineBreak(c)
NotHyphen(c) == c # "-"

\* C1: an exception raised while prefecture k is processed is caught in that
\* iteration and the loop goes on: the prefectures are entered exactly once
\* each, in list order, every prefecture before the current one has an
\* outcome, main returns only after the last one, and no exception leaves
\* main.
C1_BatchSurvivesErrors ==
    /\ ~escaped
    /\ visited = [k \in 1..Len(visited) |-> k]
    /\ Len(visited) = (IF pc \in {"loop", "done"} THEN i - 1 ELSE i)
    /\ \A k \in 1..NPref : k < i => outcome[k] # "none"
    /\ (pc = "done" => Len(visited) = NPref)
    /\ (pc = "except" => error # "" /\ outcome[i] = "none")
    /\ (pc = "end" /\ error # "" => outcome[i] = "error")

\* C1 witness: the first prefecture failed with an exception, and main still
\* went through the list and wrote the last prefecture's table.
C1_Witness ==
    /\ pc = "done"
    /\ outcome[1] = "error"
    /\ outcome[NPref] = "written"

\* C2: once the first page has given no table or a table of fewer than 2
\* rows, the iteration is at its end as skipped: no frame was built, no
\* resolution step ran, nothing was requested from the geocoder, nothing was
\* handed to to_csv, no exception was raised; and main returns only after
\* the whole list.
C2_NoTableSkips ==
    /\ ( /\ first_table.read
         /\ first_table.none \/ Len(first_table.grid) < 2
         /\ pc # "check" )
       => /\ pc = "end"
          /\ outcome[i] = "skipped"
          /\ error = ""
          /\ df = NoFrame
          /\ after_postal = NoFrame
          /\ requested = << >>
          /\ csv = NoFrame
    /\ \A k \in 1..NPref :
          outcome[k] = "skipped" /\ pc = "done" => Len(visited) = NPref

\* C2 witness: prefecture 1 was skipped for its first page and prefecture 2
\* was written after it.
C2_Witness ==
    /\ i = 2
    /\ pc = "end"
    /\ outcome[1] = "skipped"
    /\ outcome[2] = "written"

\* C3 (as claimed): after the address-parse stage (step 4), every record
\* whose region was non-empty after the postal-code stage (step 1) still has
\* that region, whatever the record was selected for.  (The claim's other
\* half, on the municipality, is the same statement on the other column.)
C3_Step4KeepsRegion ==
    (pc = "write" /\ HasColumn(df, JUSHO)) =>
        \A k \in 1..Len(df.rows) :
            CellOf(after_postal, k, TODOFUKEN) \notin {Empty, NaN}
                => CellOf(df, k, TODOFUKEN) = CellOf(after_postal, k, TODOFUKEN)

\* C4 (as claimed): a record whose geocoding request was answered with a
\* status other than 200, with a body that is not XML or with XML holding no
\* candidate has the coordinates (0, 0), and no exception came of the answer.
C4_GeocodeFailureIsLocal ==
    \A r \in 1..Len(requested) :
        requested[r].kind \in {"status", "not_xml", "no_candidate"}
            => /\ error \notin {"ParseError", "TypeError"}
               /\ Len(coords) >= requested[r].row
               /\ coords[requested[r].row] = <<Num(0), Num(0)>>

\* C5 (as claimed): in the table written for a document with a postal-code
\* column and no address column, a record whose code is in the index (hyphens
\* removed) has the indexed region and municipality and the coordinates
\* (0, 0); a record with any other code, or none, has the empty region and
\* municipality.
C5_PostalOnlyRecord ==
    ( /\ pc = "end"
      /\ outcome[i] = "written"
      /\ HasColumn(csv, YUBIN_BANGO)
      /\ ~HasColumn(csv, JUSHO) )
    => \A k \in 1..Len(csv.rows) :
        LET code == CellOf(csv, k, YUBIN_BANGO)
            key  == IF isna(code) THEN NaN ELSE SelectSeq(code, NotHyphen)
        IN  IF key \in DOMAIN postal_to_location
            THEN /\ CellOf(csv, k, TODOFUKEN) = postal_to_location[key][1]
                 /\ CellOf(csv, k, SHICHOSON) = postal_to_location[key][2]
                 /\ HasColumn(csv, IDO)
                 /\ HasColumn(csv, KEIDO)
                 /\ CellOf(csv, k, IDO) = Num(0)
                 /\ CellOf(csv, k, KEIDO) = Num(0)
            ELSE /\ CellOf(csv, k, TODOFUKEN) = Empty
                 /\ CellOf(csv, k, SHICHOSON) = Empty

\* C6: from step 2 on, the address of every record whose address was a text
\* not holding the prefecture's display name is that name followed by the
\* text, and every other address is as it was; step 2 applied again changes
\* nothing; every request to the geocoder carried the stored (repaired)
\* address of its record; and the records step 4 filled were filled from the
\* parse of the stored address.
C6_PrefixRepair ==
    (pc \in {"geocode", "parse", "write"} /\ HasColumn(df, JUSHO)) =>
        /\ Len(df.rows) = Len(after_postal.rows)
        /\ \A k \in 1..Len(df.rows) :
            LET before == CellOf(after_postal, k, JUSHO)
                now    == CellOf(df, k, JUSHO)
            IN  IF ~isna(before) /\ ~str_contains(before, prefecture_name)
                THEN /\ now = prefecture_name \o before
                     /\ SubSeq(now, 1, Len(prefecture_name)) = prefecture_name
                ELSE now = before
        /\ prefix_addresses(df, prefecture_name) = df
        /\ \A r \in 1..Len(requested) :
            requested[r].address = CellOf(df, requested[r].row, JUSHO)
        /\ pc = "write" =>
            \A k \in 1..Len(df.rows) :
                ( \/ CellOf(after_postal, k, TODOFUKEN) = Empty
                  \/ CellOf(after_postal, k, SHICHOSON) = Empty )
                => <<CellOf(df, k, TODOFUKEN), CellOf(df, k, SHICHOSON)>>
                     = split_japanese_address(CellOf(df, k, JUSHO))

\* C6 witness: the resolution of a document went through steps 2 to 4 with
\* one address that lacked the display name and one that held it, and the
\* geocoder was asked.
C6_Witness ==
    /\ pc = "write"
    /\ HasColumn(df, JUSHO)
    /\ requested # << >>
    /\ \E k \in 1..Len(df.rows) :
          /\ ~isna(CellOf(after_postal, k, JUSHO))
          /\ ~str_contains(CellOf(after_postal, k, JUSHO), prefecture_name)
    /\ \E k \in 1..Len(df.rows) :
          str_contains(CellOf(after_postal, k, JUSHO), prefecture_name)

\* C7: cleaning the cleaned frame gives the frame the first cleaning gave:
\* the same rows in the same order with the same cells.
C7_CleanIdempotent ==
    (pc = "clear_change_line" /\ calls = 2) => df = result

\* C7 witness: a frame cleaned twice whose first cleaning rewrote a cell of a
\* row it kept.
C7_Witness ==
    /\ pc = "clear_change_line"
    /\ calls = 2
    /\ df.rows # << >>
    /\ \E k \in 1..Len(df.rows) :
          \A g \in 1..Len(first_table.grid) : df.rows[k] # first_table.grid[g]

\* C8 (as claimed): no cell of the table handed to to_csv holds a line feed,
\* a carriage return or a double quote.
C8_NoLineBreakOrQuote ==
    (pc = "end" /\ outcome[i] = "written") =>
        \A k \in 1..Len(csv.rows) :
            \A c \in 1..Len(csv.rows[k]) :
                \A j \in 1..Len(csv.rows[k][c]) :
                    csv.rows[k][c][j] \notin {"\n", "\r", "\""}

\* C9: when get_first_page returns, the header is grid row 1, or row 2 when
\* the first cell of row 1 is "基本情報"; the labels are that row's cells
\* without their line breaks (a missing cell is the empty label), but for
\* 沖縄県 the first label is "公表の希望の有無"; the data rows are the grid
\* rows after the header row, in order.  It raises only where the grid has
\* no such row or cell.  The grid [[title], [基本情報], [h1, h2], [v1, v2]]
\* gives the one record {h1: v1, h2: v2}.
C9_FirstPageHeader ==
    (pc = "get_first_page" /\ calls = 1) =>
        LET g == first_table.grid
            placeholder == g[2] # << >> /\ g[2][1] = KIHON_JOHO
            h == IF placeholder THEN 3 ELSE 2
            okinawa == prefecture_name = OKINAWA
        IN  /\ result.raised # "" <=>
                \/ g[2] = << >>
                \/ Len(g) < h
                \/ okinawa /\ g[h] = << >>
            /\ result.raised = "" =>
                /\ result.row = h - 1
                /\ Len(result.headers) = Len(g[h])
                /\ \A c \in 1..Len(g[h]) :
                    result.headers[c] =
                        IF okinawa /\ c = 1 THEN KOHYO_NO_KIBO
                        ELSE IF isna(g[h][c]) THEN Empty
                        ELSE SelectSeq(g[h][c], NotLineBreak)
                /\ Len(result.data) = Len(g) - h
                /\ \A k \in 1..Len(result.data) : result.data[k] = g[h + k]
            /\ ( /\ g = <<<<ICHIRAN_TITLE>>, <<KIHON_JOHO>>,
                          <<LabelOne, LabelTwo>>, <<ValueOne, ValueTwo>>>>
                 /\ ~okinawa )
               => df = [columns |-> <<LabelOne, <<"h", "2">>>>,
                        rows |-> <<<<ValueOne, ValueTwo>>>>]

\* C9 witness: the grid [[title], [基本情報], [h1, h2], [v1, v2]] of a
\* prefecture other than 沖縄県 has been through get_first_page.
C9_Witness ==
    /\ pc = "get_first_page"
    /\ calls = 1
    /\ prefecture_name # OKINAWA
    /\ first_table.grid = <<<<ICHIRAN_TITLE>>, <<KIHON_JOHO>>,
                            <<LabelOne, LabelTwo>>, <<ValueOne, ValueTwo>>>>
    /\ result.raised = ""
    /\ result.row = 2

\* C10 (as claimed): a document whose table has an address column and no
\* postal-code column goes through steps 2 to 4 and its table, with the
\* region, municipality, latitude and longitude columns, is handed to to_csv,
\* unless the geocoding service or to_csv itself failed.
C10_AddressOnlyResolves ==
    ( /\ pc = "end"
      /\ HasColumn(after_postal, JUSHO)
      /\ ~HasColumn(after_postal, YUBIN_BANGO)
      /\ after_postal.rows # << >>
      /\ error \notin {"ConnectionError", "ParseError", "TypeError", "OSError"} )
    => /\ outcome[i] = "written"
       /\ \A label \in {TODOFUKEN, SHICHOSON, IDO, KEIDO} : HasColumn(csv, label)

=============================================================================
